---------------------------- MODULE Spec2Model ----------------------------
(***************************************************************************)
(* Model of plugins/modules/host.py (PowerStore host module).  One run of  *)
(* the module ("pass") is PowerStoreHost.perform_module_operation: it      *)
(* looks the host up on the array, checks the parameters, and issues       *)
(* create / add-initiators / remove-initiators / modify / delete requests. *)
(* The array is a set of host records; every request of a pass is logged   *)
(* in reqs in the order it is issued.  The same parameters may be run a    *)
(* second time (a playbook re-run) to study idempotence.                   *)
(***************************************************************************)
EXTENDS Naturals, Sequences, FiniteSets, TLC

(***************************************************************************)
(* Bounds of the model.                                                    *)
(***************************************************************************)
\* longest list given as the initiators parameter
MaxInitiators == 3
\* longest list given as the detailed_initiators parameter
MaxDetailed == 2
\* number of times the same parameters are run against the array
MaxPasses == 2
\* longest detailed_initiators list without port_type and CHAP
MaxMixed == 3

(***************************************************************************)
(* Values.                                                                 *)
(***************************************************************************)
\* Python None for a string-valued parameter or field
None == "None"
\* Python None for a list-valued parameter (no port name is None)
NoneList == <<None>>
\* host.py:333
PORT_TYPES == <<"iSCSI", "FC", "NVMe">>

\* port names used as inputs: an IQN, an NQN, a WWN, and an upper-case IQN
PortUniverse == <<"iqn.a", "nqn.a", "21:00", "IQN.b">>
PortNames == {PortUniverse[i] : i \in 1..Len(PortUniverse)}

\* str.startswith
startswith(s, p) == Len(s) >= Len(p) /\ SubSeq(s, 1, Len(p)) = p

\* truth value of a string-valued Python object (None and "" are false)
Truthy(x) == x # None /\ x # ""
\* truth value of the initiators parameter (None and [] are false)
TruthyList(l) == l # NoneList /\ Len(l) > 0

Range(s) == {s[i] : i \in 1..Len(s)}

\* all the orders in which the elements of a finite set can be listed
ListsOf(S) ==
    {s \in [1..Cardinality(S) -> S] : \A i, j \in 1..Cardinality(S) : s[i] = s[j] => i = j}

\* all sequences over S of length 0..n
SeqUpTo(S, n) == UNION {[1..k -> S] : k \in 0..n}

\* the value a host variable holds when there is no host (Python None)
NoHost ==
    [id |-> None, name |-> None, os_type |-> None, host_connectivity |-> None,
     host_initiators |-> <<>>]
\* the empty dict returned as host_details: dict(), a record without a field
EmptyDict == <<>>

\* an entry of an initiator list sent to the array; a key the module does
\* not set is None
Initiator(pn, pt, su, sp, mu, mp) ==
    [port_name |-> pn, port_type |-> pt,
     chap_single_username |-> su, chap_single_password |-> sp,
     chap_mutual_username |-> mu, chap_mutual_password |-> mp]

\* Python None for the detailed_initiators parameter (no entry has port_name None)
NoneDetailed == <<Initiator(None, None, None, None, None, None)>>
\* truth value of the detailed_initiators parameter (None and [] are false)
TruthyDetailed(l) == l # NoneDetailed /\ Len(l) > 0

(***************************************************************************)
(* Pure parts of host.py.                                                  *)
(***************************************************************************)
\* a slip in create_host: the NVMe branch is missing
create_port_type_NoNvme(initiator) ==
    IF startswith(initiator, "iqn") THEN PORT_TYPES[1] ELSE PORT_TYPES[2]

\* create_host, initiators form: the port type given to a raw initiator
create_port_type(initiator) ==
    IF startswith(initiator, "iqn") THEN PORT_TYPES[1]
    ELSE IF startswith(initiator, "nqn") THEN PORT_TYPES[3]
    ELSE PORT_TYPES[2]

\* a slip in the loop of create_host: the last initiator is left out
create_list_of_initiators_Short(initiators) ==
    [i \in 1..(Len(initiators) - 1) |->
        Initiator(initiators[i], create_port_type(initiators[i]), None, None, None, None)]

\* create_host, initiators form: list_of_initiators
create_list_of_initiators(initiators) ==
    [i \in 1..Len(initiators) |->
        Initiator(initiators[i], create_port_type(initiators[i]), None, None, None, None)]

\* create_host, initiators form: the IQN+WWN+NQN rejection
create_mix_rejected(initiators) ==
    LET initiator_type == {create_port_type(initiators[i]) : i \in 1..Len(initiators)}
    IN  "iSCSI" \in initiator_type /\ "FC" \in initiator_type /\ "NVMe" \in initiator_type

\* create_host, detailed_initiators form: port_type is filled in when None
create_detailed_entry(initiator) ==
    IF initiator.port_type = None
    THEN [initiator EXCEPT !.port_type =
            IF startswith(initiator.port_name, "iqn") THEN PORT_TYPES[1]
            ELSE IF startswith(initiator.port_name, "nqn") THEN PORT_TYPES[3]
            ELSE PORT_TYPES[2]]
    ELSE initiator

create_detailed_initiators(detailed_initiators) ==
    [i \in 1..Len(detailed_initiators) |-> create_detailed_entry(detailed_initiators[i])]

\* a slip in _get_add_initiators: the existing names are not subtracted
_get_add_initiators_All(existing, requested) ==
    Range(existing \o requested) \cap Range(requested)

\* _get_add_initiators: set(existing + requested) - set(existing)
_get_add_initiators(existing, requested) ==
    Range(existing \o requested) \ Range(existing)

\* a slip in _get_remove_initiators: every requested name is removed
_get_remove_initiators_All(existing, requested) ==
    Range(requested)

\* a slip in _get_remove_initiators: union for intersection
_get_remove_initiators_Union(existing, requested) ==
    Range(existing) \cup Range(requested)

\* _get_remove_initiators: set(existing) & set(requested)
_get_remove_initiators(existing, requested) ==
    Range(existing) \cap Range(requested)

\* existing_inits: the port names of host['host_initiators']
existing_inits(host) ==
    [i \in 1..Len(host.host_initiators) |-> host.host_initiators[i].port_name]

\* the port names of a detailed_initiators list
port_names_of(detailed_initiators) ==
    [i \in 1..Len(detailed_initiators) |-> detailed_initiators[i].port_name]

\* add_host_initiators, detailed form: the entry built for init from detailed_init
add_detailed_entry(init, detailed_init) ==
    IF startswith(init, "iqn")
    THEN Initiator(init, PORT_TYPES[1],
                   detailed_init.chap_single_username, detailed_init.chap_single_password,
                   detailed_init.chap_mutual_username, detailed_init.chap_mutual_password)
    ELSE IF startswith(init, "nqn")
    THEN Initiator(init, PORT_TYPES[3], None, None, None, None)
    ELSE Initiator(init, PORT_TYPES[2], None, None, None, None)

\* add_host_initiators, initiators form: the entry built for init
add_raw_entry(init) ==
    Initiator(init,
              IF startswith(init, "iqn") THEN PORT_TYPES[1]
              ELSE IF startswith(init, "nqn") THEN PORT_TYPES[3]
              ELSE PORT_TYPES[2],
              None, None, None, None)

\* add_host_initiators: the inner loop over detailed_initiators for one init
RECURSIVE add_matches(_, _)
add_matches(init, detailed_initiators) ==
    IF detailed_initiators = <<>> THEN <<>>
    ELSE (IF init = Head(detailed_initiators).port_name
          THEN <<add_detailed_entry(init, Head(detailed_initiators))>>
          ELSE <<>>) \o add_matches(init, Tail(detailed_initiators))

\* add_host_initiators: add_list_with_type, built by the loop over add_list
RECURSIVE add_list_with_type(_, _)
add_list_with_type(add_list, detailed_initiators) ==
    IF add_list = <<>> THEN <<>>
    ELSE (IF TruthyDetailed(detailed_initiators)
          THEN add_matches(Head(add_list), detailed_initiators)
          ELSE <<add_raw_entry(Head(add_list))>>)
         \o add_list_with_type(Tail(add_list), detailed_initiators)

\* a slip in validate_initiators: the NVMe branch is missing
validate_initiators_FcOnly(detailed_initiators) ==
    \E i \in 1..Len(detailed_initiators) :
        LET initiator == detailed_initiators[i] IN
        /\ Truthy(initiator.chap_single_username) \/ Truthy(initiator.chap_mutual_username)
        /\ initiator.port_type = PORT_TYPES[2]

\* validate_initiators: TRUE when it calls fail_json
validate_initiators(detailed_initiators) ==
    \E i \in 1..Len(detailed_initiators) :
        LET initiator == detailed_initiators[i] IN
        /\ Truthy(initiator.chap_single_username) \/ Truthy(initiator.chap_mutual_username)
        /\ initiator.port_type = PORT_TYPES[2] \/ initiator.port_type = PORT_TYPES[3]

\* a slip in is_modify_required: the connectivity is not compared
is_modify_required_NameOnly(host, new_name, host_connectivity) ==
    new_name # None /\ host.name # new_name

\* is_modify_required
is_modify_required(host, new_name, host_connectivity) ==
    \/ new_name # None /\ host.name # new_name
    \/ host_connectivity # None /\ host.host_connectivity # host_connectivity

(***************************************************************************)
(* The array (Remote Host Repository): a set of host records.              *)
(***************************************************************************)
Host(i, n, o, c, inits) ==
    [id |-> i, name |-> n, os_type |-> o, host_connectivity |-> c, host_initiators |-> inits]

\* an initiator as the array reports it in host_initiators
Observed(pn, pt) == [port_name |-> pn, port_type |-> pt]

\* the array keeps one entry per port name, in the order received
RECURSIVE Stored(_, _)
Stored(have, inits) ==
    IF inits = <<>> THEN have
    ELSE Stored(IF \E i \in 1..Len(have) : have[i].port_name = Head(inits).port_name
                THEN have
                ELSE Append(have, Observed(Head(inits).port_name, Head(inits).port_type)),
                Tail(inits))

\* get_host_by_name on the array: the hosts of that name
RemoteByName(array, name) == {h \in array : h.name = name}
\* get_host_details on the array: the hosts of that id (none or one)
RemoteById(array, i) == {h \in array : h.id = i}

\* the id the array gives the next host it creates
FreshId(array) ==
    IF RemoteById(array, "id1") = {} THEN "id1"
    ELSE IF RemoteById(array, "id2") = {} THEN "id2" ELSE "id3"

\* create_host on the array; the connectivity defaults to Local_Only
RemoteCreate(array, name, os_type, initiators, host_connectivity) ==
    array \cup {Host(FreshId(array), name, os_type,
                     IF host_connectivity = None THEN "Local_Only" ELSE host_connectivity,
                     Stored(<<>>, initiators))}

\* modify_host(add_initiators=...) on the array
RemoteAdd(array, i, add_initiators) ==
    {IF h.id = i
     THEN [h EXCEPT !.host_initiators = Stored(h.host_initiators, add_initiators)]
     ELSE h : h \in array}

\* modify_host(remove_initiators=...) on the array
RemoteRemove(array, i, remove_initiators) ==
    {IF h.id = i
     THEN [h EXCEPT !.host_initiators =
              SelectSeq(h.host_initiators, LAMBDA e : e.port_name \notin Range(remove_initiators))]
     ELSE h : h \in array}

\* modify_host(name=..., host_connectivity=...) on the array; None leaves a field alone
RemoteModify(array, i, name, host_connectivity) ==
    {IF h.id = i
     THEN [h EXCEPT !.name = IF name = None THEN h.name ELSE name,
                    !.host_connectivity =
                        IF host_connectivity = None THEN h.host_connectivity
                        ELSE host_connectivity]
     ELSE h : h \in array}

\* delete_host on the array
RemoteDelete(array, i) == {h \in array : h.id # i}

(***************************************************************************)
(* State of a run.                                                         *)
(***************************************************************************)
VARIABLES
    task,       \* the arguments of the task, as the playbook gives them to every pass
    params,     \* self.module.params: the desired spec, as this pass holds it
    remote,     \* the array: the set of hosts it holds
    remote0,    \* the array as it was when the current pass started
    pass,       \* number of the current pass
    pc,         \* where perform_module_operation is
    err,        \* the failure fail_json reported, "" if none
    reqs,       \* the requests issued to the array in this pass, in order
    host_id,    \* local host_id of perform_module_operation
    host_name,  \* local host_name
    host,       \* local host: the host fetched at the start of the pass, or NoHost
    lookup,     \* how get_host_by_name was answered at the start of the pass
    changed,    \* local changed
    rets,       \* the value each executed step method returned, in order
    result,     \* self.result
    prev        \* the results of the completed earlier passes

vars ==
    <<task, params, remote, remote0, pass, pc, err, reqs, host_id, host_name, host,
      lookup, changed, rets, result, prev>>

\* a request to the array; a keyword the call does not pass is None / <<>>.
\* add_initiators, remove_initiators and modify_host are the three uses of
\* conn.provisioning.modify_host.
Req(op, i, n, o, c, ini, add, rem) ==
    [op |-> op, id |-> i, name |-> n, os_type |-> o, host_connectivity |-> c,
     initiators |-> ini, add_initiators |-> add, remove_initiators |-> rem]

MutatingOps == {"create_host", "add_initiators", "remove_initiators", "modify_host", "delete_host"}

\* the requests of kind op issued so far in this pass
Issued(op) == SelectSeq(reqs, LAMBDA r : r.op = op)
\* the mutating requests issued so far in this pass
Mutations == SelectSeq(reqs, LAMBDA r : r.op \in MutatingOps)

\* a slip in get_host_id_by_name: the length of the answer is not tested
get_host_id_by_name_First(array, name) ==
    LET host_info == RemoteByName(array, name) IN
    IF host_info = {} THEN [err |-> "", id |-> None]
    ELSE [err |-> "", id |-> (CHOOSE h \in host_info : TRUE).id]

\* get_host_id_by_name, given the array's answer: the id, or the failure
get_host_id_by_name(array, name) ==
    LET host_info == RemoteByName(array, name) IN
    IF host_info = {} THEN [err |-> "", id |-> None]
    ELSE IF Cardinality(host_info) > 1 THEN [err |-> "AmbiguousNameError", id |-> None]
    ELSE [err |-> "", id |-> (CHOOSE h \in host_info : TRUE).id]

\* a slip in the except clauses: the failure is logged and the pass goes on
Fail_Logged(q, e) ==
    /\ pc' = "result"
    /\ err' = e
    /\ reqs' = reqs \o q

\* fail_json: the pass ends in failure; q are the requests issued on the way
Fail(q, e) ==
    /\ pc' = "fail_json"
    /\ err' = e
    /\ reqs' = reqs \o q

\* a slip in the order of the blocks of perform_module_operation: the modify
\* block (799-803) stands before the add and remove blocks (787-797)
Goto_ModifyFirst(next, q) ==
    /\ pc' = (IF next = "add" THEN "modify"
              ELSE IF next = "delete" THEN "add"
              ELSE IF next = "modify" THEN "delete"
              ELSE next)
    /\ err' = err
    /\ reqs' = reqs \o q

\* the pass goes on to the next step
Goto(next, q) ==
    /\ pc' = next
    /\ err' = err
    /\ reqs' = reqs \o q

(***************************************************************************)
(* Inputs: the desired specs and the arrays a run starts from.             *)
(***************************************************************************)
NoChap == [su |-> None, sp |-> None, mu |-> None, mp |-> None]
\* the CHAP settings of a detailed initiator: none, single, mutual
Chaps ==
    {NoChap,
     [su |-> "user1", sp |-> "secret1", mu |-> None, mp |-> None],
     [su |-> None, sp |-> None, mu |-> "user2", mp |-> "secret2"]}

DetailedPorts == {"iqn.a", "21:00"}

\* the entries a detailed_initiators list is made of
DetailedEntries ==
    {Initiator(pn, pt, c.su, c.sp, c.mu, c.mp) :
        pn \in DetailedPorts, pt \in {None, "iSCSI", "FC", "NVMe"}, c \in Chaps}

\* a few (initiators, detailed_initiators) pairs, used where the other
\* parameters are swept; the two are mutually exclusive, each may be omitted
FewInitiatorArgs ==
    {<<NoneList, NoneDetailed>>, <<<<>>, NoneDetailed>>, <<<<"iqn.a">>, NoneDetailed>>,
     <<<<"iqn.a", "21:00">>, NoneDetailed>>,
     <<NoneList, <<Initiator("iqn.a", None, None, None, None, None)>>>>}

\* host_name and host_id: mutually exclusive, one of them required
Identities == {<<"h1", None>>, <<None, "id1">>}

Params(ident, st, ist, nn, os, conn, ia) ==
    [host_name |-> ident[1], host_id |-> ident[2], state |-> st, initiator_state |-> ist,
     new_name |-> nn, os_type |-> os, host_connectivity |-> conn,
     initiators |-> ia[1], detailed_initiators |-> ia[2]]

\* the host "h1" (id1) on the array with the given initiators
H1(inits) ==
    Host("id1", "h1", "Linux", "Local_Only",
         [i \in 1..Len(inits) |-> Observed(inits[i], create_port_type(inits[i]))])
\* a second host of the same name
H2 == Host("id2", "h1", "Linux", "Local_Only", <<>>)

\* the arrays a run starts from: h1 absent, h1 present, two hosts named h1
FewArrays == {{}, {H1(<<>>)}, {H1(<<"iqn.a">>)}, {H1(<<>>), H2}}
InitiatorArrays == {{}, {H1(<<>>)}, {H1(<<"iqn.a">>)}, {H1(<<"iqn.a", "21:00">>)}}
DetailedArrays == {{}, {H1(<<>>)}, {H1(<<"iqn.a">>)}}

\* every scalar parameter swept, against few lists and few arrays
ScalarSweep ==
    \E ident \in Identities, st \in {"present", "absent"},
       ist \in {None, "present-in-host", "absent-in-host"},
       nn \in {None, "h1", "h2"}, os \in {None, "Linux", "Windows"},
       conn \in {None, "Local_Only", "Metro_Optimize_Both"},
       ia \in FewInitiatorArgs, a \in FewArrays :
        /\ params = Params(ident, st, ist, nn, os, conn, ia)
        /\ remote = a

\* every initiators list swept, for state=present
InitiatorSweep ==
    \E ident \in Identities, ist \in {"present-in-host", "absent-in-host"},
       l \in SeqUpTo(PortNames, MaxInitiators), a \in InitiatorArrays :
        /\ params = Params(ident, "present", ist, None, "Linux", None, <<l, NoneDetailed>>)
        /\ remote = a

\* every detailed_initiators list swept, for state=present and a host given by name
DetailedSweep ==
    \E ist \in {"present-in-host", "absent-in-host"},
       l \in SeqUpTo(DetailedEntries, MaxDetailed), a \in DetailedArrays :
        /\ params = Params(<<"h1", None>>, "present", ist, None, "Linux", None,
                           <<NoneList, l>>)
        /\ remote = a

\* detailed initiators of the three kinds of port name, port_type omitted
MixedEntries ==
    {Initiator(pn, None, None, None, None, None) : pn \in {"iqn.a", "nqn.a", "21:00"}}
MixedArrays == {{}, {H1(<<"iqn.a">>)}}

\* every such detailed_initiators list swept, for initiator_state=present-in-host
MixedSweep ==
    \E l \in SeqUpTo(MixedEntries, MaxMixed), a \in MixedArrays :
        /\ params = Params(<<"h1", None>>, "present", "present-in-host", None, "Linux", None,
                           <<NoneList, l>>)
        /\ remote = a

Init ==
    /\ ScalarSweep \/ InitiatorSweep \/ DetailedSweep \/ MixedSweep
    /\ task = params
    /\ remote0 = remote
    /\ pass = 1
    /\ pc = "resolve"
    /\ err = ""
    /\ reqs = <<>>
    /\ host_id = params.host_id
    /\ host_name = params.host_name
    /\ host = NoHost
    /\ lookup = ""
    /\ changed = FALSE
    /\ rets = <<>>
    /\ result = [changed |-> FALSE, host_details |-> EmptyDict]
    /\ prev = <<>>

(***************************************************************************)
(* perform_module_operation, one action per step.  ok, ok1, ok2 say        *)
(* whether the array answers a request or the call raises (a transport     *)
(* failure, reported by fail_json as RemoteOperationError).                *)
(***************************************************************************)
\* a slip in line 764: "not host" is lost
create_wanted_AnyHost(state, h, name) == state = "present" /\ Truthy(name)

\* line 764: the host is to be created
create_wanted(state, h, name) == state = "present" /\ h = NoHost /\ Truthy(name)

\* a slip in line 781: the existence of the host is not tested
os_type_conflict_AnyHost(h, os_type) == Truthy(os_type) /\ os_type # h.os_type

\* a slip in line 781: the comparison is lost
os_type_conflict_Never(h, os_type) == h # NoHost /\ Truthy(os_type) /\ os_type # os_type

\* line 781: os_type is given and is not the one of the existing host
os_type_conflict(h, os_type) == h # NoHost /\ Truthy(os_type) /\ os_type # h.os_type

\* a slip in lines 787-789: initiator_state is not tested
add_wanted_AnyInitiatorState(state, h, initiator_state, initiators, detailed_initiators) ==
    /\ state = "present" /\ h # NoHost
    /\ TruthyList(initiators) \/ TruthyDetailed(detailed_initiators)

\* lines 787-789: initiators are to be added
add_wanted(state, h, initiator_state, initiators, detailed_initiators) ==
    /\ state = "present" /\ h # NoHost
    /\ initiator_state = "present-in-host"
    /\ TruthyList(initiators) \/ TruthyDetailed(detailed_initiators)

\* lines 793-795: initiators are to be removed
remove_wanted(state, h, initiator_state, initiators, detailed_initiators) ==
    /\ state = "present" /\ h # NoHost
    /\ initiator_state = "absent-in-host"
    /\ TruthyList(initiators) \/ TruthyDetailed(detailed_initiators)

\* line 799: a rename or a connectivity change may be needed
modify_wanted(state, h, new_name, host_connectivity) ==
    /\ state = "present" /\ h # NoHost
    /\ Truthy(new_name) \/ Truthy(host_connectivity)

\* a slip in lines 791, 797, 807: "and" for "or"
or_changed_And(ret, c) == ret /\ c

\* a slip in lines 791, 797, 807: a step that ran counts as a change
or_changed_True(ret, c) == TRUE

\* lines 791, 797, 807: changed = (self.<step>(host) or changed)
or_changed(ret, c) == ret \/ c

\* a slip in line 805: the host is deleted only when no os_type is given
delete_wanted_NoOsType(state, h) == state = "absent" /\ h # NoHost /\ params.os_type = None

\* line 805: the host is to be deleted
delete_wanted(state, h) == state = "absent" /\ h # NoHost

GetByName(n) == Req("get_host_by_name", None, n, None, None, <<>>, <<>>, <<>>)
GetDetails(i) == Req("get_host_details", i, None, None, None, <<>>, <<>>, <<>>)

\* lines 736-743: resolve the identity and fetch the host.  The array answers
\* get_host_by_name for a name it does not hold with an empty list or with
\* HTTP 404; get_host_id_by_name returns None for both.
Resolve ==
    /\ pc = "resolve"
    /\ \E ok1, ok2 \in BOOLEAN, empty_as \in {"hosts", "404"},
          absent_as \in {"NotFoundError", "TypeError"} :
        LET named == Truthy(params.host_name)
            q1 == IF named THEN <<GetByName(params.host_name)>> ELSE <<>>
            found == IF named THEN get_host_id_by_name(remote, params.host_name)
                     ELSE [err |-> "", id |-> params.host_id]
            q2 == q1 \o <<GetDetails(found.id)>>
            got == RemoteById(remote, found.id)
        IN  /\ lookup' = IF ~named THEN ""
                         ELSE IF ~ok1 THEN "error"
                         ELSE IF RemoteByName(remote, params.host_name) = {} THEN empty_as
                         ELSE "hosts"
            /\ IF named /\ ~ok1
               THEN Fail(q1, "RemoteOperationError") /\ UNCHANGED <<host_id, host_name, host>>
               ELSE IF found.err # ""
               THEN Fail(q1, found.err) /\ UNCHANGED <<host_id, host_name, host>>
               ELSE IF ~Truthy(found.id)
               THEN Goto("check_params", q1) /\ host_id' = found.id /\ host' = NoHost
                    /\ UNCHANGED host_name
               ELSE IF ~ok2
               THEN Fail(q2, "RemoteOperationError") /\ UNCHANGED <<host_id, host_name, host>>
               ELSE IF got = {}
               \* get_host_details raises (fail_json), or returns nothing and
               \* host['name'] raises TypeError
               THEN Fail(q2, absent_as) /\ UNCHANGED <<host_id, host_name, host>>
               ELSE LET h == CHOOSE x \in got : TRUE IN
                    Goto("check_params", q2) /\ host_id' = found.id /\ host' = h
                    /\ host_name' = h.name
    /\ changed' = FALSE
    /\ UNCHANGED <<task, params, remote, remote0, pass, rets, result, prev>>

\* lines 745-762: the companion-parameter checks and validate_initiators
CheckParams ==
    /\ pc = "check_params"
    /\ IF /\ Truthy(params.initiator_state)
          /\ params.initiators = NoneList \/ Len(params.initiators) = 0
          /\ params.detailed_initiators = NoneDetailed \/ Len(params.detailed_initiators) = 0
       THEN Fail(<<>>, "ConfigurationError")
       ELSE IF /\ TruthyList(params.initiators) \/ TruthyDetailed(params.detailed_initiators)
               /\ params.initiator_state = None
       THEN Fail(<<>>, "ConfigurationError")
       ELSE IF /\ TruthyDetailed(params.detailed_initiators)
               /\ params.initiator_state # None
               /\ validate_initiators(params.detailed_initiators)
       THEN Fail(<<>>, "ValidationError")
       ELSE Goto("create", <<>>)
    /\ UNCHANGED <<task, params, remote, remote0, pass, host_id, host_name, host, lookup, changed,
                   rets, result, prev>>

\* a slip in create_host: os_type is not tested
create_host_request_AnyOsType(name) ==
    IF TruthyList(params.initiators)
    THEN IF create_mix_rejected(params.initiators)
         THEN [err |-> "ProtocolMixError", req |-> <<>>]
         ELSE [err |-> "",
               req |-> <<Req("create_host", None, name, params.os_type,
                             params.host_connectivity,
                             create_list_of_initiators(params.initiators), <<>>, <<>>)>>]
    ELSE IF params.detailed_initiators = NoneDetailed
    THEN [err |-> "TypeError", req |-> <<>>]
    ELSE [err |-> "",
          req |-> <<Req("create_host", None, name, params.os_type,
                        params.host_connectivity,
                        create_detailed_initiators(params.detailed_initiators), <<>>, <<>>)>>]

\* create_host lines 460-518: the request, or the failure before it
create_host_request(name) ==
    IF params.os_type = None THEN [err |-> "ConfigurationError", req |-> <<>>]
    ELSE IF TruthyList(params.initiators)
    THEN IF create_mix_rejected(params.initiators)
         THEN [err |-> "ProtocolMixError", req |-> <<>>]
         ELSE [err |-> "",
               req |-> <<Req("create_host", None, name, params.os_type,
                             params.host_connectivity,
                             create_list_of_initiators(params.initiators), <<>>, <<>>)>>]
    ELSE IF params.detailed_initiators = NoneDetailed
    \* iterating None raises TypeError, reported by fail_json
    THEN [err |-> "TypeError", req |-> <<>>]
    ELSE [err |-> "",
          req |-> <<Req("create_host", None, name, params.os_type,
                        params.host_connectivity,
                        create_detailed_initiators(params.detailed_initiators), <<>>, <<>>)>>]

\* create_host lines 504-511: the loop writes the port type it derives into
\* the dicts of self.module.params['detailed_initiators']; p is params when
\* create_host is called, the value is params when it returns or fails
create_host_params(p) ==
    IF p.os_type = None THEN p
    ELSE IF TruthyList(p.initiators) THEN p
    ELSE IF p.detailed_initiators = NoneDetailed THEN p
    ELSE [p EXCEPT !.detailed_initiators = create_detailed_initiators(p.detailed_initiators)]

\* lines 764-779: create the host when it is absent
CreateStep ==
    /\ pc = "create"
    /\ params' = IF /\ create_wanted(params.state, host, host_name)
                    /\ ~Truthy(params.new_name)
                    /\ params.initiator_state = "present-in-host"
                 THEN create_host_params(params)
                 ELSE params
    /\ \E ok1, ok2 \in BOOLEAN :
        IF ~create_wanted(params.state, host, host_name)
        THEN Goto("check_os_type", <<>>) /\ UNCHANGED <<remote, host_id, changed, rets>>
        ELSE IF Truthy(params.new_name)
        THEN Fail(<<>>, "ConfigurationError") /\ UNCHANGED <<remote, host_id, changed, rets>>
        ELSE IF params.initiator_state # "present-in-host"
        THEN Fail(<<>>, "ConfigurationError") /\ UNCHANGED <<remote, host_id, changed, rets>>
        ELSE LET c == create_host_request(host_name) IN
             IF c.err # ""
             THEN Fail(<<>>, c.err) /\ UNCHANGED <<remote, host_id, changed, rets>>
             ELSE IF ~ok1
             THEN Fail(c.req, "RemoteOperationError")
                  /\ UNCHANGED <<remote, host_id, changed, rets>>
             ELSE LET r == c.req[1]
                      array == RemoteCreate(remote, r.name, r.os_type, r.initiators,
                                            r.host_connectivity)
                      found == get_host_id_by_name(array, host_name)
                      q == c.req \o <<GetByName(host_name)>>
                  IN  /\ remote' = array
                      /\ changed' = TRUE
                      /\ rets' = Append(rets, [step |-> "create_host", ret |-> TRUE])
                      /\ IF ~ok2
                         THEN Fail(q, "RemoteOperationError") /\ UNCHANGED host_id
                         ELSE IF found.err # ""
                         THEN Fail(q, found.err) /\ UNCHANGED host_id
                         ELSE Goto("check_os_type", q) /\ host_id' = found.id
    /\ UNCHANGED <<task, remote0, pass, host_name, host, lookup, result, prev>>

\* lines 781-785: os_type of an existing host cannot be modified
CheckOsType ==
    /\ pc = "check_os_type"
    /\ IF os_type_conflict(host, params.os_type)
       THEN Fail(<<>>, "ImmutableFieldError")
       ELSE Goto("add", <<>>)
    /\ UNCHANGED <<task, params, remote, remote0, pass, host_id, host_name, host, lookup, changed,
                   rets, result, prev>>

\* a slip in lines 551-566: "already present" when any requested name is on
\* the host
add_requested_Any(existing, initiators, detailed_initiators) ==
    IF TruthyList(initiators) /\ Range(initiators) \cap Range(existing) # {}
    THEN [early |-> TRUE, initiators |-> <<>>]
    ELSE IF /\ TruthyDetailed(detailed_initiators)
            /\ Range(port_names_of(detailed_initiators)) \cap Range(existing) # {}
    THEN [early |-> TRUE, initiators |-> <<>>]
    ELSE IF TruthyDetailed(detailed_initiators)
    THEN [early |-> FALSE, initiators |-> port_names_of(detailed_initiators)]
    ELSE [early |-> FALSE, initiators |-> initiators]

\* add_host_initiators lines 551-571: FALSE when it returns early ("already
\* present"), else the requested port names it goes on with
add_requested(existing, initiators, detailed_initiators) ==
    IF TruthyList(initiators) /\ Range(initiators) \subseteq Range(existing)
    THEN [early |-> TRUE, initiators |-> <<>>]
    ELSE IF /\ TruthyDetailed(detailed_initiators)
            /\ Range(port_names_of(detailed_initiators)) \subseteq Range(existing)
    THEN [early |-> TRUE, initiators |-> <<>>]
    ELSE IF TruthyDetailed(detailed_initiators)
    THEN [early |-> FALSE, initiators |-> port_names_of(detailed_initiators)]
    ELSE [early |-> FALSE, initiators |-> initiators]

\* lines 787-791 and add_host_initiators; add_list is a list of a set, in
\* any order
AddStep ==
    /\ pc = "add"
    /\ IF ~add_wanted(params.state, host, params.initiator_state, params.initiators,
                      params.detailed_initiators)
       THEN Goto("remove", <<>>) /\ UNCHANGED <<remote, changed, rets>>
       ELSE LET existing == existing_inits(host)
                a == add_requested(existing, params.initiators, params.detailed_initiators)
            IN
            IF a.early
            THEN /\ Goto("remove", <<>>)
                 /\ changed' = or_changed(FALSE, changed)
                 /\ rets' = Append(rets, [step |-> "add_host_initiators", ret |-> FALSE])
                 /\ UNCHANGED remote
            ELSE \E ok \in BOOLEAN, add_list \in ListsOf(_get_add_initiators(existing, a.initiators)) :
                 LET with_type == add_list_with_type(add_list, params.detailed_initiators)
                     q == <<Req("add_initiators", host.id, None, None, None, <<>>,
                                with_type, <<>>)>>
                 IN  IF Len(with_type) > 0
                     THEN IF ok
                          THEN /\ Goto("remove", q)
                               /\ remote' = RemoteAdd(remote, host.id, with_type)
                               /\ changed' = or_changed(TRUE, changed)
                               /\ rets' = Append(rets, [step |-> "add_host_initiators",
                                                        ret |-> TRUE])
                          ELSE Fail(q, "RemoteOperationError")
                               /\ UNCHANGED <<remote, changed, rets>>
                     ELSE /\ Goto("remove", <<>>)
                          /\ changed' = or_changed(FALSE, changed)
                          /\ rets' = Append(rets, [step |-> "add_host_initiators",
                                                   ret |-> FALSE])
                          /\ UNCHANGED remote
    /\ UNCHANGED <<task, params, remote0, pass, host_id, host_name, host, lookup, result, prev>>

\* lines 793-797 and remove_host_initiators; remove_list is a list of a set,
\* in any order
RemoveStep ==
    /\ pc = "remove"
    /\ IF ~remove_wanted(params.state, host, params.initiator_state, params.initiators,
                         params.detailed_initiators)
       THEN Goto("modify", <<>>) /\ UNCHANGED <<remote, changed, rets>>
       ELSE LET existing == existing_inits(host)
                initiators == IF TruthyDetailed(params.detailed_initiators)
                              THEN port_names_of(params.detailed_initiators)
                              ELSE params.initiators
            IN
            IF Len(existing) = 0
            THEN /\ Goto("modify", <<>>)
                 /\ changed' = or_changed(FALSE, changed)
                 /\ rets' = Append(rets, [step |-> "remove_host_initiators", ret |-> FALSE])
                 /\ UNCHANGED remote
            ELSE \E ok \in BOOLEAN,
                    remove_list \in ListsOf(_get_remove_initiators(existing, initiators)) :
                 LET q == <<Req("remove_initiators", host.id, None, None, None, <<>>,
                                <<>>, remove_list)>>
                 IN  IF Len(remove_list) > 0
                     THEN IF ok
                          THEN /\ Goto("modify", q)
                               /\ remote' = RemoteRemove(remote, host.id, remove_list)
                               /\ changed' = or_changed(TRUE, changed)
                               /\ rets' = Append(rets, [step |-> "remove_host_initiators",
                                                        ret |-> TRUE])
                          ELSE Fail(q, "RemoteOperationError")
                               /\ UNCHANGED <<remote, changed, rets>>
                     ELSE /\ Goto("modify", <<>>)
                          /\ changed' = or_changed(FALSE, changed)
                          /\ rets' = Append(rets, [step |-> "remove_host_initiators",
                                                   ret |-> FALSE])
                          /\ UNCHANGED remote
    /\ UNCHANGED <<task, params, remote0, pass, host_id, host_name, host, lookup, result, prev>>

\* lines 799-803 and update_host
ModifyStep ==
    /\ pc = "modify"
    /\ \E ok \in BOOLEAN :
        IF /\ modify_wanted(params.state, host, params.new_name, params.host_connectivity)
           /\ is_modify_required(host, params.new_name, params.host_connectivity)
        THEN LET q == <<Req("modify_host", host.id, params.new_name, None,
                            params.host_connectivity, <<>>, <<>>, <<>>)>>
             IN  IF ok
                 THEN /\ Goto("delete", q)
                      /\ remote' = RemoteModify(remote, host.id, params.new_name,
                                                params.host_connectivity)
                      /\ changed' = TRUE
                      /\ rets' = Append(rets, [step |-> "update_host", ret |-> TRUE])
                 ELSE Fail(q, "RemoteOperationError") /\ UNCHANGED <<remote, changed, rets>>
        ELSE Goto("delete", <<>>) /\ UNCHANGED <<remote, changed, rets>>
    /\ UNCHANGED <<task, params, remote0, pass, host_id, host_name, host, lookup, result, prev>>

\* lines 805-807 and delete_host
DeleteStep ==
    /\ pc = "delete"
    /\ \E ok \in BOOLEAN :
        IF delete_wanted(params.state, host)
        THEN LET q == <<Req("delete_host", host.id, None, None, None, <<>>, <<>>, <<>>)>>
             IN  IF ok
                 THEN /\ Goto("result", q)
                      /\ remote' = RemoteDelete(remote, host.id)
                      /\ changed' = or_changed(TRUE, changed)
                      /\ rets' = Append(rets, [step |-> "delete_host", ret |-> TRUE])
                 ELSE Fail(q, "RemoteOperationError") /\ UNCHANGED <<remote, changed, rets>>
        ELSE Goto("result", <<>>) /\ UNCHANGED <<remote, changed, rets>>
    /\ UNCHANGED <<task, params, remote0, pass, host_id, host_name, host, lookup, result, prev>>

\* a slip in _create_result_dict: the test of state is lost
_create_result_dict_Empty(state, c, fetched) ==
    [changed |-> c, host_details |-> EmptyDict]

\* _create_result_dict: fetched is what self.get_host(host_id) returns
_create_result_dict(state, c, fetched) ==
    [changed |-> c,
     host_details |-> IF state = "absent" THEN EmptyDict ELSE fetched]

\* lines 809-812 and _create_result_dict: the result, and exit_json
Finish ==
    /\ pc = "result"
    /\ \E ok \in BOOLEAN, absent_as \in {"NotFoundError", "None"} :
        IF params.state = "absent"
        THEN /\ Goto("exit_json", <<>>)
             /\ result' = _create_result_dict(params.state, changed, EmptyDict)
        ELSE LET q == <<GetDetails(host_id)>>
                 got == RemoteById(remote, host_id)
             IN  IF ~ok
                 THEN Fail(q, "RemoteOperationError")
                      /\ result' = [result EXCEPT !.changed = changed]
                 ELSE IF got = {} /\ absent_as = "NotFoundError"
                 \* get_host_details raises: get_host calls fail_json
                 THEN Fail(q, "NotFoundError")
                      /\ result' = [result EXCEPT !.changed = changed]
                 ELSE IF got = {}
                 \* get_host_details returns nothing: get_host returns None
                 THEN /\ Goto("exit_json", q)
                      /\ result' = _create_result_dict(params.state, changed, NoHost)
                 ELSE /\ Goto("exit_json", q)
                      /\ result' = _create_result_dict(params.state, changed,
                                                        CHOOSE x \in got : TRUE)
    /\ UNCHANGED <<task, params, remote, remote0, pass, host_id, host_name, host, lookup, changed,
                   rets, prev>>

\* the same task is run again after it succeeded (a re-run of the playbook)
NextPass ==
    /\ pc = "exit_json"
    /\ pass < MaxPasses
    /\ pass' = pass + 1
    /\ prev' = Append(prev, [result |-> result, mutations |-> Mutations])
    /\ remote0' = remote
    /\ pc' = "resolve"
    /\ err' = ""
    /\ reqs' = <<>>
    /\ host_id' = params.host_id
    /\ host_name' = params.host_name
    /\ host' = NoHost
    /\ lookup' = ""
    /\ changed' = FALSE
    /\ rets' = <<>>
    /\ result' = [changed |-> FALSE, host_details |-> EmptyDict]
    /\ params' = task
    /\ UNCHANGED <<task, remote>>

Next ==
    \/ Resolve
    \/ CheckParams
    \/ CreateStep
    \/ CheckOsType
    \/ AddStep
    \/ RemoveStep
    \/ ModifyStep
    \/ DeleteStep
    \/ Finish
    \/ NextPass

Spec == Init /\ [][Next]_vars

\* the pass has ended
Ended == pc \in {"exit_json", "fail_json"}

(***************************************************************************)
(* Vocabulary of the properties.                                           *)
(***************************************************************************)
\* the hosts the desired spec identifies, on the array as the pass found it
Target0 ==
    IF Truthy(task.host_name) THEN RemoteByName(remote0, task.host_name)
    ELSE RemoteById(remote0, task.host_id)
\* the host exists (and is the only one identified)
HostExists0 == Cardinality(Target0) = 1
Observed0 == CHOOSE h \in Target0 : TRUE
\* the port names on the host when the pass started
Existing0 == {Observed0.host_initiators[i].port_name : i \in 1..Len(Observed0.host_initiators)}
\* the port names the desired spec lists, in either form
Requested ==
    IF TruthyList(task.initiators) THEN Range(task.initiators)
    ELSE IF TruthyDetailed(task.detailed_initiators)
    THEN Range(port_names_of(task.detailed_initiators))
    ELSE {}
\* the port names of a list of initiator entries
Names(entries) == {entries[i].port_name : i \in 1..Len(entries)}
\* a step method returned r in this pass
Returned(step, r) == \E i \in 1..Len(rets) : rets[i] = [step |-> step, ret |-> r]
\* the failures of identity resolution and of the transport
LookupErrors == {"RemoteOperationError", "AmbiguousNameError", "NotFoundError", "TypeError"}
\* initiator_state without a non-empty list, or a non-empty list without initiator_state
CompanionMissing ==
    \/ task.initiator_state # None /\ Requested = {}
    \/ task.initiator_state = None /\ Requested # {}
\* a detailed initiator declared FC or NVMe that has a CHAP username
ChapOnFcOrNvme ==
    /\ TruthyDetailed(task.detailed_initiators)
    /\ \E i \in 1..Len(task.detailed_initiators) :
        LET d == task.detailed_initiators[i] IN
        /\ d.port_type \in {"FC", "NVMe"}
        /\ d.chap_single_username # None \/ d.chap_mutual_username # None
\* an initiator entry carries a CHAP credential
HasChap(e) ==
    \/ e.chap_single_username # None \/ e.chap_single_password # None
    \/ e.chap_mutual_username # None \/ e.chap_mutual_password # None

(***************************************************************************)
(* C1.  Idempotence: when a first pass has completed successfully and the  *)
(* array answers faithfully, a second pass with the identical desired spec *)
(* completes with changed=false and issues no mutating request.            *)
(***************************************************************************)
C1_SecondPassUnchanged ==
    (pass > 1 /\ Ended /\ err # "RemoteOperationError")
        => (pc = "exit_json" /\ result.changed = FALSE /\ Mutations = <<>>)

(***************************************************************************)
(* C2.  In every creation request and every add-initiators request, an     *)
(* initiator sent with port type FC or NVMe carries no CHAP credential.    *)
(***************************************************************************)
C2_NoChapOnFcNvme ==
    \A k \in 1..Len(reqs) :
        LET sent == IF reqs[k].op = "create_host" THEN reqs[k].initiators
                    ELSE reqs[k].add_initiators
        IN  \A i \in 1..Len(sent) :
                sent[i].port_type \in {"FC", "NVMe"} => ~HasChap(sent[i])

(***************************************************************************)
(* C3.  With initiator_state set and a detailed initiator that is declared *)
(* FC or NVMe and has a CHAP username, the pass does not get past the      *)
(* validation: it fails, with the validation error unless the lookup       *)
(* itself failed, and no mutating request is issued.  A list in which no   *)
(* such initiator occurs (the username on an iSCSI one) never fails        *)
(* validation.                                                             *)
(***************************************************************************)
C3_ChapValidation ==
    /\ (task.initiator_state # None /\ ChapOnFcOrNvme)
        => /\ Mutations = <<>>
           /\ pc \in {"resolve", "check_params", "fail_json"}
           /\ pc = "fail_json" => err \in LookupErrors \cup {"ValidationError"}
    /\ ~ChapOnFcOrNvme => err # "ValidationError"

\* the validation error has been raised for an NVMe initiator with a CHAP
\* username, after a successful lookup
C3_Witness ==
    /\ pc = "fail_json" /\ err = "ValidationError"
    /\ host # NoHost
    /\ \E i \in 1..Len(task.detailed_initiators) :
        /\ task.detailed_initiators[i].port_type = "NVMe"
        /\ task.detailed_initiators[i].chap_mutual_username # None

(***************************************************************************)
(* C4.  Create: with the named host absent, state=present,                 *)
(* initiator_state=present-in-host, os_type given and initiators supplied, *)
(* the only mutating request the pass issues is one creation request, and  *)
(* it carries the name, os_type, host_connectivity and the whole initiator *)
(* list, each initiator with a port type; a pass that completes has issued *)
(* it and returns changed=true.                                            *)
(***************************************************************************)
CreateCase ==
    /\ Truthy(task.host_name) /\ Target0 = {}
    /\ task.state = "present" /\ task.initiator_state = "present-in-host"
    /\ task.os_type # None /\ Requested # {}

\* the port names of the desired spec, in the order given
RequestedList ==
    IF TruthyList(task.initiators) THEN task.initiators
    ELSE port_names_of(task.detailed_initiators)

C4_Create ==
    CreateCase =>
        /\ Len(Mutations) <= 1
        /\ \A k \in 1..Len(Mutations) :
            LET r == Mutations[k] IN
            /\ r.op = "create_host"
            /\ r.name = task.host_name
            /\ r.os_type = task.os_type
            /\ r.host_connectivity = task.host_connectivity
            /\ port_names_of(r.initiators) = RequestedList
            /\ \A i \in 1..Len(r.initiators) : r.initiators[i].port_type \in Range(PORT_TYPES)
        /\ pc = "exit_json" => (Len(Mutations) = 1 /\ result.changed = TRUE)

\* a pass has created the host with a connectivity and two initiators
C4_Witness ==
    /\ CreateCase /\ pc = "exit_json"
    /\ Len(Issued("create_host")) = 1
    /\ task.host_connectivity # None
    /\ Len(RequestedList) = 2

(***************************************************************************)
(* C5.  Add initiators: on an existing host with state=present and         *)
(* initiator_state=present-in-host, the add step returns false and issues  *)
(* no request when every requested port name is already on the host;       *)
(* otherwise it issues exactly one add request, whose port names are the   *)
(* requested ones minus the existing ones, and returns true.               *)
(***************************************************************************)
AddCase ==
    /\ HostExists0 /\ task.state = "present"
    /\ task.initiator_state = "present-in-host" /\ Requested # {}

C5_AddInitiators ==
    AddCase =>
        LET adds == Issued("add_initiators") IN
        /\ Len(adds) <= 1
        /\ \A k \in 1..Len(adds) :
            /\ adds[k].id = Observed0.id
            /\ Names(adds[k].add_initiators) = Requested \ Existing0
            /\ Requested \ Existing0 # {}
        /\ pc \in {"remove", "modify", "delete", "result", "exit_json"} =>
            /\ Len(adds) = (IF Requested \subseteq Existing0 THEN 0 ELSE 1)
            /\ Returned("add_host_initiators", ~(Requested \subseteq Existing0))
            /\ ~Returned("add_host_initiators", Requested \subseteq Existing0)
        /\ pc = "remove" => changed = ~(Requested \subseteq Existing0)

\* an add request for part of the requested names has been answered
C5_Witness ==
    /\ AddCase /\ pc = "exit_json"
    /\ Len(Issued("add_initiators")) = 1
    /\ Requested \cap Existing0 # {}
    /\ TruthyDetailed(task.detailed_initiators)

(***************************************************************************)
(* C6.  Remove initiators: on an existing host with state=present and      *)
(* initiator_state=absent-in-host, the remove step returns false and       *)
(* issues no request when none of the requested port names is on the host  *)
(* (in particular when the host has no initiator); otherwise it issues     *)
(* exactly one remove request, for the existing names that are requested,  *)
(* and returns true.  A requested name that is not on the host is no error.*)
(***************************************************************************)
RemoveCase ==
    /\ HostExists0 /\ task.state = "present"
    /\ task.initiator_state = "absent-in-host" /\ Requested # {}

C6_RemoveInitiators ==
    RemoveCase =>
        LET rems == Issued("remove_initiators") IN
        /\ Len(rems) <= 1
        /\ \A k \in 1..Len(rems) :
            /\ rems[k].id = Observed0.id
            /\ Range(rems[k].remove_initiators) = Existing0 \cap Requested
            /\ Len(rems[k].remove_initiators) = Cardinality(Existing0 \cap Requested)
            /\ Existing0 \cap Requested # {}
        /\ pc \in {"modify", "delete", "result", "exit_json"} =>
            /\ Len(rems) = (IF Existing0 \cap Requested = {} THEN 0 ELSE 1)
            /\ Returned("remove_host_initiators", Existing0 \cap Requested # {})
            /\ ~Returned("remove_host_initiators", Existing0 \cap Requested = {})
        /\ pc = "modify" => changed = (Existing0 \cap Requested # {})

\* a remove request has been answered although one requested name was not
\* on the host
C6_Witness ==
    /\ RemoveCase /\ pc = "exit_json"
    /\ Len(Issued("remove_initiators")) = 1
    /\ Requested \ Existing0 # {}
    /\ Existing0 \ Requested # {}

(***************************************************************************)
(* C7.  Rename / connectivity: on an existing host with state=present and  *)
(* new_name or host_connectivity supplied, one modify request is issued    *)
(* exactly when new_name is supplied and differs from the observed name or *)
(* host_connectivity is supplied and differs from the observed one; when   *)
(* neither differs, none is issued and update_host is not called.          *)
(***************************************************************************)
ModifyCase ==
    /\ HostExists0 /\ task.state = "present"
    /\ Truthy(task.new_name) \/ Truthy(task.host_connectivity)

Differs ==
    \/ task.new_name # None /\ task.new_name # Observed0.name
    \/ task.host_connectivity # None
       /\ task.host_connectivity # Observed0.host_connectivity

C7_ModifyIffDiffers ==
    ModifyCase =>
        LET mods == Issued("modify_host") IN
        /\ Len(mods) <= 1
        /\ mods # <<>> => Differs
        /\ \A k \in 1..Len(mods) :
            /\ mods[k].id = Observed0.id
            /\ mods[k].name = task.new_name
            /\ mods[k].host_connectivity = task.host_connectivity
        /\ pc \in {"delete", "result", "exit_json"} =>
            /\ (Len(mods) = 1) <=> Differs
            /\ Returned("update_host", TRUE) <=> Differs

\* a modify request was issued for the connectivity alone, the name given
\* being the observed one
C7_Witness ==
    /\ ModifyCase /\ pc = "exit_json"
    /\ Len(Issued("modify_host")) = 1
    /\ task.new_name = Observed0.name
    /\ task.host_connectivity # None

(***************************************************************************)
(* C8.  Delete.  As claimed: whenever state=absent and the host is found   *)
(* to exist, the pass issues a delete request, whatever the other          *)
(* parameters are.                                                         *)
(***************************************************************************)
C8_DeleteUnconditional ==
    (task.state = "absent" /\ host # NoHost /\ Ended)
        => Len(Issued("delete_host")) = 1

\* the parameter checks that precede the delete step let the pass through
ChecksPass ==
    /\ ~CompanionMissing
    /\ ~ChapOnFcOrNvme
    /\ ~(Truthy(task.os_type) /\ task.os_type # Observed0.os_type)

(***************************************************************************)
(* C8, amended.  Whenever state=absent, the host is found to exist and the *)
(* parameter checks pass (initiator_state and the initiator list given     *)
(* together or not at all, no CHAP username on an FC or NVMe initiator,    *)
(* os_type absent or equal to the host's), the pass issues exactly one     *)
(* delete request, for that host, and no other mutating request; it        *)
(* returns changed=true and empty host_details unless that request fails.  *)
(***************************************************************************)
C8_DeleteWhenChecksPass ==
    (task.state = "absent" /\ host # NoHost /\ ChecksPass) =>
        /\ Ended =>
            /\ Len(Mutations) = 1
            /\ Mutations[1].op = "delete_host"
            /\ Mutations[1].id = Observed0.id
        /\ pc = "exit_json" =>
            /\ result = [changed |-> TRUE, host_details |-> EmptyDict]
        /\ pc = "fail_json" => err = "RemoteOperationError"

\* a host was deleted although os_type, new_name, host_connectivity and
\* the initiators were all given
C8_Witness ==
    /\ task.state = "absent" /\ pc = "exit_json"
    /\ Len(Issued("delete_host")) = 1
    /\ task.os_type # None /\ task.new_name # None
    /\ task.host_connectivity # None /\ task.initiator_state # None

(***************************************************************************)
(* C9.  state=absent on a host that does not exist, identified by          *)
(* host_name or by host_id, is a successful no-op: changed=false, empty    *)
(* host_details, no delete request (for a desired spec that passes the     *)
(* parameter checks and an array that answers).                            *)
(***************************************************************************)
C9_AbsentIsNoop ==
    (/\ task.state = "absent" /\ Target0 = {} /\ Ended
     /\ ~CompanionMissing /\ ~ChapOnFcOrNvme
     /\ err # "RemoteOperationError")
        => /\ pc = "exit_json"
           /\ result = [changed |-> FALSE, host_details |-> EmptyDict]
           /\ Issued("delete_host") = <<>>

(***************************************************************************)
(* C10.  Precondition failures never mutate.  With (1) initiator_state set *)
(* and no non-empty initiator list, (2) a non-empty initiator list and no  *)
(* initiator_state, (3) the host absent, state=present and new_name given, *)
(* (4) the host absent, state=present and initiator_state other than       *)
(* present-in-host, or (5) the host existing and os_type given and         *)
(* different from the observed one, the pass never gets past the os_type   *)
(* check, ends only in failure, issues no mutating request, leaves the     *)
(* array as it was and returns no result.                                  *)
(***************************************************************************)
Precondition1 == task.initiator_state # None /\ Requested = {}
Precondition2 == task.initiator_state = None /\ Requested # {}
Precondition3 == Target0 = {} /\ task.state = "present" /\ Truthy(task.new_name)
Precondition4 ==
    Target0 = {} /\ task.state = "present" /\ task.initiator_state # "present-in-host"
Precondition5 ==
    /\ Target0 # {} /\ Truthy(task.os_type)
    /\ \A h \in Target0 : h.os_type # task.os_type

C10_PreconditionFailuresNeverMutate ==
    (Precondition1 \/ Precondition2 \/ Precondition3 \/ Precondition4 \/ Precondition5)
        => /\ pc \in {"resolve", "check_params", "create", "check_os_type", "fail_json"}
           /\ Mutations = <<>>
           /\ remote = remote0
           /\ result = [changed |-> FALSE, host_details |-> EmptyDict]

\* the os_type check has failed a pass that was about to add initiators
C10_Witness ==
    /\ pc = "fail_json" /\ err = "ImmutableFieldError"
    /\ Precondition5 /\ AddCase /\ ~(Requested \subseteq Existing0)

(***************************************************************************)
(* C11.  As claimed: in a pass that ends with a configuration error or an  *)
(* immutable-field error, no request of any kind has been issued to the    *)
(* array before the failure.                                               *)
(***************************************************************************)
ConfigErrors == {"ConfigurationError", "ImmutableFieldError"}

C11_NoRequestBeforeConfigError ==
    (pc = "fail_json" /\ err \in ConfigErrors) => reqs = <<>>

\* the read-only requests of identity resolution
LookupOps == {"get_host_by_name", "get_host_details"}

(***************************************************************************)
(* C11, amended.  In a pass that ends with a configuration error or an     *)
(* immutable-field error, no mutating request has been issued before the   *)
(* failure and the array is as it was: the only requests of the pass are   *)
(* the read-only lookups of identity resolution (at most the lookup by     *)
(* name and the fetch of the host found), which precede every check.       *)
(***************************************************************************)
C11_NoMutationBeforeConfigError ==
    (pc = "fail_json" /\ err \in ConfigErrors) =>
        /\ Mutations = <<>>
        /\ remote = remote0
        /\ Len(reqs) <= 2
        /\ \A k \in 1..Len(reqs) : reqs[k].op \in LookupOps
        /\ rets = <<>>

\* the os_type of an existing host, found by name, was to be changed: the
\* pass failed after the two lookups (Scenario D)
C11_Witness ==
    /\ pc = "fail_json" /\ err = "ImmutableFieldError"
    /\ Len(reqs) = 2
    /\ task.os_type = "Windows" /\ host.os_type = "Linux"

(***************************************************************************)
(* C12.  Protocol mix on create: a creation pass whose initiators, given   *)
(* as initiators or as detailed_initiators, span iSCSI, FC and NVMe fails  *)
(* and issues no creation request.                                         *)
(***************************************************************************)
\* the protocol family of a port name
Family(pn) ==
    IF startswith(pn, "iqn") THEN "iSCSI" ELSE IF startswith(pn, "nqn") THEN "NVMe" ELSE "FC"

\* the protocol families of the initiators the desired spec lists; a
\* detailed initiator has the family it declares, if it declares one
SuppliedFamilies ==
    IF TruthyList(task.initiators)
    THEN {Family(task.initiators[i]) : i \in 1..Len(task.initiators)}
    ELSE IF TruthyDetailed(task.detailed_initiators)
    THEN {IF task.detailed_initiators[i].port_type # None
          THEN task.detailed_initiators[i].port_type
          ELSE Family(task.detailed_initiators[i].port_name) :
             i \in 1..Len(task.detailed_initiators)}
    ELSE {}

\* the pass is one that creates the host, if its parameters are accepted
CreationPass ==
    /\ Truthy(task.host_name) /\ Target0 = {}
    /\ task.state = "present"

C12_MixRejectedOnCreate ==
    (CreationPass /\ SuppliedFamilies = {"iSCSI", "FC", "NVMe"}) =>
        /\ Issued("create_host") = <<>>
        /\ pc # "exit_json"
        /\ pc = "fail_json" =>
            err \in LookupErrors \cup {"ProtocolMixError", "ConfigurationError", "ValidationError"}

(***************************************************************************)
(* C13.  Single initiator type per host: every creation request carries    *)
(* initiators of one port type only, and an add request sent for a host    *)
(* whose initiators are of one type leaves them of one type.               *)
(***************************************************************************)
Types(entries) == {entries[i].port_type : i \in 1..Len(entries)}

C13_SingleInitiatorType ==
    \A k \in 1..Len(reqs) :
        /\ reqs[k].op = "create_host" => Cardinality(Types(reqs[k].initiators)) <= 1
        /\ (reqs[k].op = "add_initiators" /\ Cardinality(Types(host.host_initiators)) <= 1)
            => Cardinality(Types(host.host_initiators) \cup Types(reqs[k].add_initiators)) <= 1

(***************************************************************************)
(* C14.  The changed verdict is the logical OR of the flags the executed   *)
(* steps returned: at every point of a pass changed is true exactly when a *)
(* step has returned true, and a successful pass returns that value.  A    *)
(* later step that does nothing does not reset it, and steps combine.      *)
(***************************************************************************)
\* some step executed in this pass returned true
AnyStepChanged == \E i \in 1..Len(rets) : rets[i].ret

C14_ChangedIsOr ==
    /\ changed = AnyStepChanged
    /\ pc = "exit_json" => result.changed = AnyStepChanged

\* initiators were added and the host renamed in one successful pass
C14_Witness ==
    /\ pc = "exit_json" /\ result.changed = TRUE
    /\ Returned("add_host_initiators", TRUE)
    /\ Returned("update_host", TRUE)
    /\ Len(rets) = 2

(***************************************************************************)
(* C15.  Result assembly: a successful pass with state=present returns as  *)
(* host_details the host as the array holds it after the last mutating     *)
(* request of the pass, fetched by the last request of the pass: the host  *)
(* found at the start, under its new name if one was given, or the host    *)
(* just created.  A successful pass with state=absent returns empty        *)
(* host_details.                                                           *)
(***************************************************************************)
C15_HostDetails ==
    pc = "exit_json" =>
        IF task.state = "absent" THEN result.host_details = EmptyDict
        ELSE LET d == result.host_details
                 last == reqs[Len(reqs)]
             IN  /\ d \in remote
                 /\ last.op = "get_host_details" /\ last.id = d.id
                 /\ host # NoHost =>
                        /\ d.id = host.id
                        /\ d.name = (IF task.new_name # None THEN task.new_name
                                     ELSE host.name)
                 /\ host = NoHost =>
                        /\ Len(Issued("create_host")) = 1
                        /\ d.id \notin {h.id : h \in remote0}
                        /\ d.name = task.host_name
                        /\ d.os_type = task.os_type
                        /\ Names(d.host_initiators) = Requested

\* a host was renamed and given initiators, and is returned under its new
\* name with them
C15_Witness ==
    /\ pc = "exit_json" /\ task.state = "present"
    /\ Len(Issued("modify_host")) = 1 /\ Len(Issued("add_initiators")) = 1
    /\ result.host_details.name = "h2" /\ host.name = "h1"
    /\ Names(result.host_details.host_initiators) = Existing0 \cup Requested

(***************************************************************************)
(* C16.  Abort on remote failure: when a mutating request (create, add,    *)
(* remove, modify, delete) fails, the pass is in failure, the failed       *)
(* request was issued once and is the last request of the pass, no result  *)
(* is returned, and nothing more happens in the pass.                      *)
(***************************************************************************)
\* the request issued last was a mutating one and it failed
FailedMutation ==
    /\ err = "RemoteOperationError"
    /\ reqs # <<>> /\ reqs[Len(reqs)].op \in MutatingOps

C16_AbortOnRemoteFailure ==
    /\ [](FailedMutation =>
            /\ pc = "fail_json"
            /\ result = [changed |-> FALSE, host_details |-> EmptyDict]
            /\ Cardinality({k \in 1..Len(reqs) : reqs[k] = reqs[Len(reqs)]}) = 1)
    /\ [][~FailedMutation]_vars

\* the modify request failed after an add request had succeeded
C16_Witness ==
    /\ FailedMutation /\ pc = "fail_json"
    /\ Len(Mutations) = 2
    /\ Mutations[1].op = "add_initiators" /\ Mutations[2].op = "modify_host"

(***************************************************************************)
(* C17.  No partial commit: whenever a pass terminates in failure, the     *)
(* array is as it was when the pass started.                               *)
(***************************************************************************)
C17_NoPartialCommit ==
    pc = "fail_json" => remote = remote0

(***************************************************************************)
(* C18.  Lookup by name.  When the array holds more than one host of the   *)
(* name, the pass fails at the lookup, with the ambiguous-name error       *)
(* unless the request itself failed, and issues no mutating request.  When *)
(* the lookup returns nothing (an empty list or HTTP 404) the host is      *)
(* taken as absent and the pass goes on to the checks; a failure later in  *)
(* the pass is not one of the lookup.  Any other error of the lookup fails *)
(* the pass at once.                                                       *)
(***************************************************************************)
\* the lookup by name was answered with nothing
LookupEmpty == lookup = "404" \/ (lookup = "hosts" /\ Target0 = {})

C18_LookupByName ==
    /\ (Truthy(task.host_name) /\ Cardinality(Target0) > 1 /\ pc # "resolve") =>
            /\ pc = "fail_json"
            /\ err \in {"AmbiguousNameError", "RemoteOperationError"}
            /\ lookup = "hosts" => err = "AmbiguousNameError"
            /\ Mutations = <<>> /\ Len(reqs) = 1
    /\ LookupEmpty =>
            /\ pc # "resolve" /\ host = NoHost
            /\ Len(Issued("get_host_by_name")) >= 1
            /\ pc = "fail_json" =>
                /\ err \notin {"AmbiguousNameError", "NotFoundError", "TypeError"}
                /\ err = "RemoteOperationError" => Len(reqs) > 1
    /\ lookup = "error" =>
            /\ pc = "fail_json" /\ err = "RemoteOperationError"
            /\ Mutations = <<>> /\ Len(reqs) = 1

\* two hosts of the name were found and the pass failed
C18_Witness ==
    /\ pc = "fail_json" /\ err = "AmbiguousNameError"
    /\ lookup = "hosts" /\ Cardinality(Target0) = 2
    /\ task.state = "absent"

(***************************************************************************)
(* C19.  Creation requirements: every creation request carries an os_type  *)
(* and at least one initiator; a pass that would create the host but has   *)
(* no os_type, or no initiator, fails without a creation request and       *)
(* leaves the array as it was.                                             *)
(***************************************************************************)
C19_CreationRequirements ==
    /\ \A k \in 1..Len(reqs) :
            reqs[k].op = "create_host" =>
                /\ reqs[k].os_type # None
                /\ Len(reqs[k].initiators) >= 1
                /\ reqs[k].name = task.host_name
    /\ (CreationPass /\ (task.os_type = None \/ Requested = {})) =>
            /\ Issued("create_host") = <<>>
            /\ pc # "exit_json"
            /\ remote = remote0

\* a creation with initiators and initiator_state but no os_type has failed
C19_Witness ==
    /\ CreationPass /\ pc = "fail_json" /\ err = "ConfigurationError"
    /\ task.os_type = None /\ Requested # {}
    /\ task.initiator_state = "present-in-host" /\ task.new_name = None

(***************************************************************************)
(* C20.  Classifier: an initiator given as a bare identifier (the          *)
(* initiators form, or a detailed initiator without port_type) is sent, in *)
(* a creation request and in an add request, with the port type of its     *)
(* prefix: "iqn" gives iSCSI, "nqn" gives NVMe, anything else, a           *)
(* differently-cased prefix included, gives FC; the create path and the    *)
(* add path give an identifier the same port type.                         *)
(***************************************************************************)
C20_Classifier ==
    /\ \A k \in 1..Len(reqs) :
        LET r == reqs[k] IN
        /\ (r.op = "create_host" /\ TruthyList(task.initiators)) =>
                \A i \in 1..Len(r.initiators) :
                    r.initiators[i].port_type = Family(r.initiators[i].port_name)
        /\ (r.op = "create_host" /\ TruthyDetailed(task.detailed_initiators)) =>
                \A i \in 1..Len(r.initiators) :
                    task.detailed_initiators[i].port_type = None =>
                        r.initiators[i].port_type = Family(r.initiators[i].port_name)
        /\ r.op = "add_initiators" =>
                \A i \in 1..Len(r.add_initiators) :
                    r.add_initiators[i].port_type = Family(r.add_initiators[i].port_name)
    /\ Family("iqn.a") = "iSCSI" /\ Family("nqn.a") = "NVMe"
    /\ Family("21:00") = "FC" /\ Family("IQN.b") = "FC"
    /\ \A x \in PortNames : create_port_type(x) = add_raw_entry(x).port_type

\* a host was created with an NQN and an upper-case IQN, sent as NVMe and FC
C20_Witness ==
    /\ pc = "exit_json" /\ Len(Issued("create_host")) = 1
    /\ \E i, j \in 1..Len(Issued("create_host")[1].initiators) :
        LET sent == Issued("create_host")[1].initiators IN
        /\ sent[i].port_name = "IQN.b" /\ sent[i].port_type = "FC"
        /\ sent[j].port_name = "nqn.a" /\ sent[j].port_type = "NVMe"

(***************************************************************************)
(* The differ on its own: _get_add_initiators and _get_remove_initiators   *)
(* applied to every pair of lists of port names, repeats included.  The    *)
(* pair is held in params and the two answers in result; the variables of  *)
(* a pass are idle.                                                        *)
(***************************************************************************)
DifferInit ==
    /\ \E existing, requested \in SeqUpTo(PortNames, MaxInitiators) :
        params = [existing |-> existing, requested |-> requested]
    /\ task = params
    /\ result = [additions |-> {}, removals |-> {}]
    /\ pc = "differ"
    /\ remote = {} /\ remote0 = {} /\ pass = 1 /\ err = "" /\ reqs = <<>>
    /\ host_id = None /\ host_name = None /\ host = NoHost /\ lookup = ""
    /\ changed = FALSE /\ rets = <<>> /\ prev = <<>>

\* add_list = self._get_add_initiators(existing_inits, initiators)
DifferAdd ==
    /\ pc = "differ"
    /\ result' = [result EXCEPT
                    !.additions = _get_add_initiators(params.existing, params.requested)]
    /\ pc' = "differ_remove"
    /\ UNCHANGED <<task, params, remote, remote0, pass, err, reqs, host_id, host_name, host,
                   lookup, changed, rets, prev>>

\* remove_list = self._get_remove_initiators(existing_inits, initiators)
DifferRemove ==
    /\ pc = "differ_remove"
    /\ result' = [result EXCEPT
                    !.removals = _get_remove_initiators(params.existing, params.requested)]
    /\ pc' = "differ_done"
    /\ UNCHANGED <<task, params, remote, remote0, pass, err, reqs, host_id, host_name, host,
                   lookup, changed, rets, prev>>

DifferNext == DifferAdd \/ DifferRemove

DifferSpec == DifferInit /\ [][DifferNext]_vars

(***************************************************************************)
(* C21.  Differ laws, for all lists E (existing) and R (requested) of port *)
(* names, repeats allowed: the additions are disjoint from E; together     *)
(* with E they contain R; the removals are a subset of E and of R;         *)
(* additions(E,E) is empty; removals(E,empty) is empty; an empty R gives   *)
(* no additions and an empty E no removals.                                *)
(***************************************************************************)
C21_DifferLaws ==
    pc = "differ_done" =>
        LET E == Range(params.existing)
            R == Range(params.requested)
        IN  /\ result.additions \cap E = {}
            /\ R \subseteq (result.additions \cup E)
            /\ result.removals \subseteq E
            /\ result.removals \subseteq R
            /\ params.existing = params.requested => result.additions = {}
            /\ params.requested = <<>> =>
                    (result.removals = {} /\ result.additions = {})
            /\ params.existing = <<>> => result.removals = {}

\* lists with a repeated name that give one addition and one removal
C21_Witness ==
    /\ pc = "differ_done"
    /\ Len(params.existing) = 3 /\ Cardinality(Range(params.existing)) = 2
    /\ Len(params.requested) = 3 /\ Cardinality(Range(params.requested)) = 2
    /\ Cardinality(result.additions) = 1 /\ Cardinality(result.removals) = 1

(***************************************************************************)
(* C22.  A host identified by host_id is never created: in a pass whose    *)
(* desired spec gives host_id, no creation request is issued and the array *)
(* gets no new host, whatever the array holds and the other parameters     *)
(* are.                                                                    *)
(***************************************************************************)
C22_NoCreateByHostId ==
    task.host_id # None =>
        /\ Issued("create_host") = <<>>
        /\ {h.id : h \in remote} \subseteq {h.id : h \in remote0}

\* a pass by host_id that had all a creation needs has added initiators to
\* the host it found
C22_Witness ==
    /\ task.host_id # None /\ pc = "exit_json"
    /\ task.state = "present" /\ task.initiator_state = "present-in-host"
    /\ task.os_type # None /\ task.new_name = None
    /\ Len(Issued("add_initiators")) = 1

(***************************************************************************)
(* C23.  Fixed ordering within a pass: the lookup of identity resolution   *)
(* is the first request and precedes every check; a pass that fails a      *)
(* precondition or a validation (companion parameter, CHAP validation,     *)
(* new_name or initiator_state on create, missing os_type, protocol mix,   *)
(* os_type immutability) has issued no mutating request; the mutating      *)
(* requests of a pass are in the order create, add, remove, modify,        *)
(* delete.                                                                 *)
(***************************************************************************)
CheckErrors ==
    {"ConfigurationError", "ValidationError", "ProtocolMixError", "ImmutableFieldError"}

\* the place of a mutating request in the order of the steps
Rank(op) ==
    CASE op = "create_host" -> 1
      [] op = "add_initiators" -> 2
      [] op = "remove_initiators" -> 3
      [] op = "modify_host" -> 4
      [] op = "delete_host" -> 5

C23_FixedOrdering ==
    /\ reqs # <<>> => reqs[1].op \in LookupOps
    /\ pc # "resolve" => reqs # <<>>
    /\ (pc = "fail_json" /\ err \in CheckErrors) => Mutations = <<>>
    /\ \A i, j \in 1..Len(Mutations) :
            i < j => Rank(Mutations[i].op) < Rank(Mutations[j].op)

\* initiators were removed and then the host was renamed, in one pass
C23_Witness ==
    /\ pc = "exit_json" /\ Len(Mutations) = 2
    /\ Mutations[1].op = "remove_initiators" /\ Mutations[2].op = "modify_host"
    /\ reqs[1].op = "get_host_by_name"

(***************************************************************************)
(* C24.  Explicit port type is honoured: an initiator sent in a creation   *)
(* request or an add request for a detailed initiator has the port_type    *)
(* the desired spec gives for that port name, and the one of the prefix    *)
(* only when the desired spec gives none.                                  *)
(***************************************************************************)
\* the detailed initiators of the desired spec with the given port name
Supplied(pn) ==
    {task.detailed_initiators[i] : i \in
        {k \in 1..Len(task.detailed_initiators) :
            task.detailed_initiators[k].port_name = pn}}

\* the port type the desired spec asks for with a detailed initiator
AskedType(d) == IF d.port_type # None THEN d.port_type ELSE Family(d.port_name)

\* the initiators sent by a request
Sent(r) == IF r.op = "create_host" THEN r.initiators ELSE r.add_initiators

C24_ExplicitPortType ==
    TruthyDetailed(task.detailed_initiators) =>
        \A k \in 1..Len(reqs) : \A i \in 1..Len(Sent(reqs[k])) :
            LET e == Sent(reqs[k])[i] IN
            e.port_type \in {AskedType(d) : d \in Supplied(e.port_name)}

(***************************************************************************)
(* C25.  CHAP fields are re-attached on add: an initiator sent in an add   *)
(* request for a detailed initiator carries the CHAP usernames and         *)
(* passwords the desired spec gives for that port name.                    *)
(***************************************************************************)
ChapOf(e) ==
    <<e.chap_single_username, e.chap_single_password,
      e.chap_mutual_username, e.chap_mutual_password>>

C25_ChapOnAdd ==
    TruthyDetailed(task.detailed_initiators) =>
        \A k \in 1..Len(reqs) : \A i \in 1..Len(reqs[k].add_initiators) :
            LET e == reqs[k].add_initiators[i] IN
            ChapOf(e) \in {ChapOf(d) : d \in Supplied(e.port_name)}

(***************************************************************************)
(* C26.  Bounded, non-repeating requests: in a pass each kind of mutating  *)
(* request is issued at most once; add and remove are never both issued; a *)
(* pass that issues create, or delete, issues no other mutating request.   *)
(***************************************************************************)
C26_BoundedRequests ==
    /\ \A op \in MutatingOps : Len(Issued(op)) <= 1
    /\ ~(Issued("add_initiators") # <<>> /\ Issued("remove_initiators") # <<>>)
    /\ Issued("create_host") # <<>> => Len(Mutations) = 1
    /\ Issued("delete_host") # <<>> => Len(Mutations) = 1

\* a host that holds a requested initiator was deleted, with
\* initiator_state=absent-in-host, by the one request of the pass
C26_Witness ==
    /\ pc = "exit_json" /\ Len(Issued("delete_host")) = 1
    /\ task.initiator_state = "absent-in-host"
    /\ Requested \cap Existing0 # {}
    /\ Len(Mutations) = 1

(***************************************************************************)
(* C27.  The verdict matches the requests: while a pass has not failed,    *)
(* changed is true exactly when a mutating request has been issued, and a  *)
(* pass that completes returns changed=true if and only if it issued at    *)
(* least one mutating request.                                             *)
(***************************************************************************)
C27_VerdictMatchesRequests ==
    /\ pc # "fail_json" => (changed <=> Mutations # <<>>)
    /\ pc = "exit_json" => (result.changed <=> Mutations # <<>>)

\* state=present on an existing host with nothing to change: the requested
\* initiators are on the host and the new name is its name
C27_Witness ==
    /\ pc = "exit_json" /\ result.changed = FALSE /\ Mutations = <<>>
    /\ task.state = "present" /\ host # NoHost
    /\ Returned("add_host_initiators", FALSE)
    /\ task.new_name = host.name

(***************************************************************************)
(* C28.  Convergence of the initiator set, the array applying the requests *)
(* faithfully: after a successful pass with state=present and              *)
(* initiator_state=present-in-host the host holds the initiators it held   *)
(* and every requested one (a created host: the requested ones); after a   *)
(* successful pass with initiator_state=absent-in-host it holds the ones   *)
(* it held less the requested ones.                                        *)
(***************************************************************************)
C28_Convergence ==
    (pc = "exit_json" /\ task.state = "present" /\ Requested # {}) =>
        LET now == Names(result.host_details.host_initiators)
            before == IF host = NoHost THEN {} ELSE Existing0
        IN  /\ result.host_details \in remote
            /\ task.initiator_state = "present-in-host" => now = before \cup Requested
            /\ task.initiator_state = "absent-in-host" => now = before \ Requested

\* one of two requested initiators was added to a host that held the other
\* and a third one
C28_Witness ==
    /\ pc = "exit_json" /\ task.state = "present"
    /\ task.initiator_state = "present-in-host"
    /\ Len(Issued("add_initiators")) = 1
    /\ Cardinality(Requested) = 2 /\ Cardinality(Existing0) = 2
    /\ Cardinality(Names(result.host_details.host_initiators)) = 3

(***************************************************************************)
(* C29.  No duplicate entries in an add request: every add request lists   *)
(* each port name at most once, also when the requested list repeats a     *)
(* port name.                                                              *)
(***************************************************************************)
C29_NoDuplicateAdd ==
    \A k \in 1..Len(reqs) :
        Len(reqs[k].add_initiators) = Cardinality(Names(reqs[k].add_initiators))

=============================================================================
